---- MODULE Spec2Model ----
(***************************************************************************)
(* Cart synchronisation of the biophase storefront: the CartProvider with  *)
(* a remote cart and lazy restore (docs/shopify-setup.md, the provider     *)
(* that starts with "useCallback"), its reducer, normalizeCart, the        *)
(* localStorage helpers, and the cart endpoints it calls.                  *)
(*                                                                         *)
(* An asynchronous handler is two steps of the provider: the synchronous   *)
(* part up to its fetch (the invocation) and the continuation that runs    *)
(* when the response has arrived (the resolution).  Between them the       *)
(* request is served by the commerce platform (Serve), which is the        *)
(* environment.  A handler reads state.cartId from the closure of the      *)
(* render in which it was created, so the cart id it uses is the one of    *)
(* the state at its invocation.                                            *)
(*                                                                         *)
(* Two more carts of the repository are modelled beside it, each with its  *)
(* own variables: the local cart (lib/cartContext.js), whose handlers are  *)
(* synchronous and work on the items of the last render, and the REST      *)
(* cart store that keeps its carts in a Map in memory.  Spec and FairSpec  *)
(* run the synchronising provider, StoreSpec runs the other two.           *)
(***************************************************************************)
EXTENDS Integers, Sequences, FiniteSets, TLC

\* ------------------------------------------------------------------ bounds
MaxOps == 2            \* handler invocations in one session
MaxInFlight == 2       \* requests a caller lets overlap
MaxCalls == 3          \* calls of the local cart and requests to the REST store
MaxBody == 2           \* entries of the lines array of one REST request

\* --------------------------------------------------------------- constants
Null == 0                                   \* JavaScript null for ids and urls
NoError == "null"                           \* JavaScript null for state.error
Variants == {"V1", "V2"}                    \* purchasable variants of the catalog
AddQuantities == {0, 1}                     \* quantities passed to addToCart
UpdateQuantities == {-3, 0, 2}              \* quantities passed to updateQuantity
CartIds == 1..(MaxOps + 1)                  \* cart ids the platform hands out
Price(v) == IF v = "V1" THEN "10.00" ELSE "25.50"  \* priceV2.amount of a variant
CheckoutUrl(c) == 100 + c                   \* the platform's checkout url of cart c
LineId(c, v) == <<c, v>>                    \* the platform's id of the line of v in cart c
NoVariant == "none"                         \* no variant argument
NoLine == <<0, "none">>                     \* no line argument
Merchandise == {"M1", "M2"}                 \* merchandise ids sent to the REST store
RestQuantities == {-2, 0, 2}                \* quantities of the lines POSTed to the store
PutQuantities == {0, 2}                     \* quantities of the updates PUT to the store
NoPrice == ""                               \* a line sent without a price
LinePrice(m) == IF m = "M1" THEN "10.00" ELSE NoPrice  \* the price sent with m
RestCartIds == 1..MaxCalls                  \* cart ids a client of the store names

VARIABLES
  state,      \* useReducer state of CartProvider
  storage,    \* localStorage[CART_STORAGE_KEY]
  mounted,    \* the mount effect has run
  pending,    \* the requests in flight, in the order of their invocation
  invoked,    \* number of handler invocations so far
  last,       \* the provider's latest step: what ran, and how its request ended
  remote,     \* the platform's carts: cart id -> [live, lines]
  nextCart,   \* the next cart id the platform hands out
  local,          \* local cart: useReducer state of its CartProvider
  closure,        \* local cart: state.items of the render the handlers close over
  stored,         \* local cart: localStorage[CART_STORAGE_KEY]
  localMounted,   \* local cart: the effects of the first render have run
  nextLocalLine,  \* local cart: the line id generateLineId gives next
  carts,          \* REST store: the Map of carts
  nextCartId,     \* REST store: counter of generateCartId
  nextLineId,     \* REST store: counter of generateLineId
  response,       \* REST store: the response to the latest request
  calls,          \* calls of the local cart and requests to the REST store so far
  api,            \* cart API routes: the latest request and how it was answered
  products,       \* product list routes: the latest request and what it asked for
  tokens,         \* access tokens: cachedToken and tokenExpiresAt of each module
  clock,          \* access tokens: Date.now(), in milliseconds
  exchanges,      \* access tokens: token exchanges awaiting their response
  tokenCalls      \* access tokens: calls of getAccessToken so far

syncVars == <<state, storage, mounted, pending, invoked, last, remote, nextCart>>
localVars == <<local, closure, stored, localMounted, nextLocalLine>>
restVars == <<carts, nextCartId, nextLineId, response>>
cartVars == <<syncVars, localVars, restVars, calls>>
tokenVars == <<tokens, clock, exchanges, tokenCalls>>
auxVars == <<api, products, tokenVars>>
vars == <<syncVars, localVars, restVars, calls, auxVars>>

\* ------------------------------------------------------------ localStorage
\* A stored string is modelled by what JSON.parse makes of it.
Absent == [tag |-> "absent", cartId |-> Null]              \* getItem gives null
Json(cartId) == [tag |-> "object", cartId |-> cartId]      \* '{"cartId": ...}'
Garbage == [tag |-> "garbage", cartId |-> Null]            \* JSON.parse throws
JsonNull == [tag |-> "null", cartId |-> Null]              \* 'null': parsed.cartId throws
JsonScalar == [tag |-> "scalar", cartId |-> Null]          \* '"x"', '5': no cartId

persistCartId(cartId) ==
  IF cartId # Null THEN Json(cartId) ELSE Absent

\* loadCartId: the value it returns and the storage it leaves
\* (variant: a stored value that is not an object is returned as the cart id)
loadCartIdReturnsParsed(st) ==
  CASE st.tag = "absent"  -> [value |-> Null, storage |-> st]
    [] st.tag = "object"  -> [value |-> st.cartId, storage |-> st]
    [] st.tag = "scalar"  -> [value |-> 1, storage |-> st]
    [] st.tag = "garbage" -> [value |-> Null, storage |-> Absent]
    [] st.tag = "null"    -> [value |-> Null, storage |-> Absent]

loadCartId(st) ==
  CASE st.tag = "absent"  -> [value |-> Null, storage |-> st]
    [] st.tag = "object"  -> [value |-> st.cartId, storage |-> st]
    [] st.tag = "scalar"  -> [value |-> Null, storage |-> st]
    [] st.tag = "garbage" -> [value |-> Null, storage |-> Absent]
    [] st.tag = "null"    -> [value |-> Null, storage |-> Absent]

\* ----------------------------------------------------------------- reducer
initialState ==
  [cartId |-> Null, checkoutUrl |-> Null, items |-> <<>>,
   loading |-> FALSE, error |-> NoError]

\* (variant: SET_CART patches the items it holds instead of replacing them)
cartReducerPatches(s, action) ==
  CASE action.type = "SET_CART" ->
         [s EXCEPT !.cartId = action.payload.cartId,
                   !.checkoutUrl = action.payload.checkoutUrl,
                   !.items = action.payload.items \o
                             SelectSeq(s.items,
                               LAMBDA it : \A k \in 1..Len(action.payload.items) :
                                             action.payload.items[k].id # it.id),
                   !.loading = FALSE,
                   !.error = NoError]
    [] action.type = "SET_LOADING" ->
         [s EXCEPT !.loading = TRUE, !.error = NoError]
    [] action.type = "SET_ERROR" ->
         [s EXCEPT !.loading = FALSE, !.error = action.payload]
    [] action.type = "CLEAR_CART" -> initialState
    [] OTHER -> s

\* (variant: SET_ERROR leaves the loading flag as it is)
cartReducerErrorKeepsLoading(s, action) ==
  CASE action.type = "SET_CART" ->
         [s EXCEPT !.cartId = action.payload.cartId,
                   !.checkoutUrl = action.payload.checkoutUrl,
                   !.items = action.payload.items,
                   !.loading = FALSE,
                   !.error = NoError]
    [] action.type = "SET_LOADING" ->
         [s EXCEPT !.loading = TRUE, !.error = NoError]
    [] action.type = "SET_ERROR" ->
         [s EXCEPT !.error = action.payload]
    [] action.type = "CLEAR_CART" -> initialState
    [] OTHER -> s

\* (variant: SET_CART does not adopt the cart id of the payload)
cartReducerKeepsCartId(s, action) ==
  CASE action.type = "SET_CART" ->
         [s EXCEPT !.checkoutUrl = action.payload.checkoutUrl,
                   !.items = action.payload.items,
                   !.loading = FALSE,
                   !.error = NoError]
    [] action.type = "SET_LOADING" ->
         [s EXCEPT !.loading = TRUE, !.error = NoError]
    [] action.type = "SET_ERROR" ->
         [s EXCEPT !.loading = FALSE, !.error = action.payload]
    [] action.type = "CLEAR_CART" -> initialState
    [] OTHER -> s

cartReducer(s, action) ==
  CASE action.type = "SET_CART" ->
         [s EXCEPT !.cartId = action.payload.cartId,
                   !.checkoutUrl = action.payload.checkoutUrl,
                   !.items = action.payload.items,
                   !.loading = FALSE,
                   !.error = NoError]
    [] action.type = "SET_LOADING" ->
         [s EXCEPT !.loading = TRUE, !.error = NoError]
    [] action.type = "SET_ERROR" ->
         [s EXCEPT !.loading = FALSE, !.error = action.payload]
    [] action.type = "CLEAR_CART" -> initialState
    [] OTHER -> s

\* ----------------------------------------------------------- normalizeCart
\* A raw cart is [id, checkoutUrl, lines], a raw line
\* [id, quantity, merchandise |-> [id, price]]; the item is the flat form.
\* (Titles, handle and image are copied the same way and are left out.)
normalizeCart(cart) ==
  [cartId |-> cart.id,
   checkoutUrl |-> cart.checkoutUrl,
   items |-> [k \in 1..Len(cart.lines) |->
                [id |-> cart.lines[k].id,
                 variantId |-> cart.lines[k].merchandise.id,
                 price |-> cart.lines[k].merchandise.price,
                 quantity |-> cart.lines[k].quantity]]]

\* ------------------------------------------------------ the derived values
\* parseFloat of a decimal amount, in hundredths.  (The amounts of the
\* catalog are dyadic, so the double arithmetic on them is exact.)
parseFloat(amount) ==
  CASE amount = "10.00" -> 1000
    [] amount = "25.50" -> 2550
    [] amount = "0.00" -> 0

\* Array.prototype.reduce with the two callbacks of the provider
RECURSIVE reduceQuantity(_, _)
reduceQuantity(items, sum) ==
  IF items = <<>> THEN sum
  ELSE reduceQuantity(Tail(items), sum + Head(items).quantity)

RECURSIVE reducePrice(_, _)
reducePrice(items, sum) ==
  IF items = <<>> THEN sum
  ELSE reducePrice(Tail(items),
                   sum + parseFloat(Head(items).price) * Head(items).quantity)

\* (variant: reduce without its initial value, which throws on an empty
\* array; -1 stands for the count that is never computed)
itemCountNoInitialValue(s) ==
  IF s.items = <<>> THEN -1
  ELSE reduceQuantity(Tail(s.items), Head(s.items).quantity)

itemCount(s) == reduceQuantity(s.items, 0)

\* (variant: the callback adds the unit price, not the line total)
subtotalOfUnitPrices(s) ==
  LET RECURSIVE sumPrices(_, _)
      sumPrices(items, sum) ==
        IF items = <<>> THEN sum
        ELSE sumPrices(Tail(items), sum + parseFloat(Head(items).price))
  IN  sumPrices(s.items, 0)

subtotal(s) == reducePrice(s.items, 0)

\* ------------------------------------------------------- the platform side
RawLine(c, v, q) ==
  [id |-> LineId(c, v), quantity |-> q,
   merchandise |-> [id |-> v, price |-> Price(v)]]

\* A cart of the platform; a cart id it does not resolve is not live
Live(lines) == [live |-> TRUE, lines |-> lines]
NoCart == [live |-> FALSE, lines |-> <<>>]

RawCart(c, lines) == [id |-> c, checkoutUrl |-> CheckoutUrl(c), lines |-> lines]

HasLine(lines, lid) == \E k \in 1..Len(lines) : lines[k].id = lid
HasVariant(lines, v) == \E k \in 1..Len(lines) : lines[k].merchandise.id = v

\* cartLinesAdd: the platform merges a variant it already holds into its line
LinesAdd(c, lines, v, q) ==
  IF HasVariant(lines, v)
    THEN [k \in 1..Len(lines) |->
            IF lines[k].merchandise.id = v
              THEN [lines[k] EXCEPT !.quantity = @ + q]
              ELSE lines[k]]
    ELSE Append(lines, RawLine(c, v, q))

LinesUpdate(lines, lid, q) ==
  [k \in 1..Len(lines) |->
     IF lines[k].id = lid THEN [lines[k] EXCEPT !.quantity = q] ELSE lines[k]]

LinesRemove(lines, lid) == SelectSeq(lines, LAMBDA l : l.id # lid)

\* Responses as the browser's fetch sees them
NoResp == [kind |-> "none", cart |-> RawCart(Null, <<>>)]
Ok(cart) == [kind |-> "ok", cart |-> cart]                    \* 2xx with a cart
HttpError == [kind |-> "http_error", cart |-> RawCart(Null, <<>>)]  \* res.ok false
NetworkError == [kind |-> "network", cart |-> RawCart(Null, <<>>)]  \* fetch rejects
NullCart == [kind |-> "null_cart", cart |-> RawCart(Null, <<>>)]    \* 2xx, cart: null

\* What the platform answers to request o in the state rem, and what it
\* becomes.  A transport failure and a rejection change nothing.
\* It rejects a line to add whose quantity is below 1.
\* The cart of a response is the platform's, not the request's: to an update
\* it may answer with the line gone (the merchandise is no longer available).
ServeOutcomes(o, rem, nc) ==
  LET unchanged(r) == [resp |-> r, remote |-> rem, nextCart |-> nc]
      exists == o.cartId \in DOMAIN rem /\ rem[o.cartId].live
      held == rem[o.cartId].lines
      done(lines) == [resp |-> Ok(RawCart(o.cartId, lines)),
                      remote |-> [rem EXCEPT ![o.cartId] = Live(lines)],
                      nextCart |-> nc]
  IN  {unchanged(NetworkError), unchanged(HttpError)}
      \cup
      (CASE o.kind = "create" /\ o.quantity >= 1 ->
              {[resp |-> Ok(RawCart(nc, <<RawLine(nc, o.variant, o.quantity)>>)),
                remote |-> [rem EXCEPT
                              ![nc] = Live(<<RawLine(nc, o.variant, o.quantity)>>)],
                nextCart |-> nc + 1]}
         [] o.kind = "add" /\ o.quantity >= 1 ->
              IF exists
                THEN {done(LinesAdd(o.cartId, held, o.variant, o.quantity))}
                ELSE {unchanged(NullCart)}
         [] o.kind = "update" ->
              IF exists
                THEN IF HasLine(held, o.lineId)
                       THEN {done(LinesUpdate(held, o.lineId, o.quantity)),
                             done(LinesRemove(held, o.lineId))}
                       ELSE {}
                ELSE {unchanged(NullCart)}
         [] o.kind = "remove" ->
              IF exists
                THEN IF HasLine(held, o.lineId)
                       THEN {done(LinesRemove(held, o.lineId))}
                       ELSE {}
                ELSE {unchanged(NullCart)}
         [] OTHER -> {})

\* ------------------------------------------------------------ the handlers
SetCart(payload) == [type |-> "SET_CART", payload |-> payload]
SetLoading == [type |-> "SET_LOADING"]
SetError(msg) == [type |-> "SET_ERROR", payload |-> msg]
ClearCart == [type |-> "CLEAR_CART"]

\* The message of the Error a handler catches for a response that is not a cart
ErrorMessage(o, r) ==
  CASE r.kind = "network" -> "Failed to fetch"
    [] r.kind = "null_cart" -> "Cannot read properties of null"
    [] o.kind = "create" -> "Failed to create cart"
    [] o.kind = "add" -> "Failed to add to cart"
    [] o.kind = "update" -> "Failed to update cart"
    [] OTHER -> "Failed to remove item"

\* A request: the handler that issued it, the endpoint (kind "none": the
\* handler returned without a request), the cart id of the closure, the
\* arguments, and the response once the platform has served it.
Op(handler, kind, cartId, variant, lineId, quantity) ==
  [handler |-> handler, kind |-> kind, cartId |-> cartId, variant |-> variant,
   lineId |-> lineId, quantity |-> quantity, served |-> FALSE, resp |-> NoResp]

\* What the promise of a handler is fulfilled with.  The handlers are async
\* functions whose try/catch spans every await and whose catch block only
\* dispatches, so the promise is never rejected; none of them has a return
\* statement with a value, whatever the request o and the response r were.
Fulfilled(o, r) == "undefined"

\* The provider's latest step: the handler and the endpoint of the request
\* it was about, how the request ended, the cart the response carried, and
\* what the handler's promise holds after the step.
Step(type, o, r) ==
  [type |-> type, handler |-> o.handler, kind |-> o.kind, cartId |-> o.cartId,
   result |-> r.kind,
   respCartId |-> r.cart.id, respLines |-> Len(r.cart.lines),
   returned |-> CASE type = "resolve" -> Fulfilled(o, r)
                  [] type = "invoke" ->
                       IF o.kind = "none" THEN Fulfilled(o, r) ELSE "pending"
                  [] OTHER -> "none"]

NoOp == Op("none", "none", Null, NoVariant, NoLine, 0)

\* handleAddToCart up to its fetch: the request it issues
handleAddToCart(s, variant, quantity) ==
  IF s.cartId = Null
    THEN Op("add", "create", Null, variant, NoLine, quantity)
    ELSE Op("add", "add", s.cartId, variant, NoLine, quantity)

\* handleUpdateQuantity up to its fetch
\* (variant: without the early return for a missing cart id)
handleUpdateQuantityUnguarded(s, lineId, quantity) ==
  IF quantity <= 0
    THEN Op("update", "remove", s.cartId, NoVariant, lineId, quantity)
    ELSE Op("update", "update", s.cartId, NoVariant, lineId, quantity)

handleUpdateQuantity(s, lineId, quantity) ==
  IF s.cartId = Null
    THEN Op("update", "none", Null, NoVariant, lineId, quantity)
    ELSE IF quantity <= 0
           THEN Op("update", "remove", s.cartId, NoVariant, lineId, quantity)
           ELSE Op("update", "update", s.cartId, NoVariant, lineId, quantity)

\* handleRemoveItem up to its fetch
handleRemoveItem(s, lineId) ==
  IF s.cartId = Null
    THEN Op("remove", "none", Null, NoVariant, lineId, 0)
    ELSE Op("remove", "remove", s.cartId, NoVariant, lineId, 0)

\* The continuations: the state and the storage a handler leaves when the
\* response r of its request o has arrived in state s with storage st.
\* (variant: the catch block forgets the cart)
CaughtClearsCart(o, r, s, st) ==
  [state |-> cartReducer(cartReducer(s, ClearCart), SetError(ErrorMessage(o, r))),
   storage |-> persistCartId(Null)]

Caught(o, r, s, st) ==
  [state |-> cartReducer(s, SetError(ErrorMessage(o, r))), storage |-> st]

\* (variant: the cart id of the response is persisted before res.ok is looked at)
handleAddToCartThenPersistsFirst(o, r, s, st) ==
  IF r.kind # "ok"
    THEN [state |-> Caught(o, r, s, st).state, storage |-> persistCartId(r.cart.id)]
    ELSE LET normalized == normalizeCart(r.cart)
         IN  [state |-> cartReducer(s, SetCart(normalized)),
              storage |-> persistCartId(normalized.cartId)]

handleAddToCartThen(o, r, s, st) ==
  IF r.kind # "ok" THEN Caught(o, r, s, st)
  ELSE LET normalized == normalizeCart(r.cart)
       IN  [state |-> cartReducer(s, SetCart(normalized)),
            storage |-> persistCartId(normalized.cartId)]

handleUpdateQuantityThen(o, r, s, st) ==
  IF r.kind # "ok" THEN Caught(o, r, s, st)
  ELSE LET normalized == normalizeCart(r.cart)
       IN  IF o.quantity <= 0
             THEN IF Len(normalized.items) > 0
                    THEN [state |-> cartReducer(s, SetCart(normalized)),
                          storage |-> persistCartId(normalized.cartId)]
                    ELSE [state |-> cartReducer(s, ClearCart),
                          storage |-> persistCartId(Null)]
             ELSE [state |-> cartReducer(s, SetCart(normalized)), storage |-> st]

\* (variant: an emptied cart is merged like any other)
handleRemoveItemThenKeepsEmpty(o, r, s, st) ==
  IF r.kind # "ok" THEN Caught(o, r, s, st)
  ELSE [state |-> cartReducer(s, SetCart(normalizeCart(r.cart))), storage |-> st]

handleRemoveItemThen(o, r, s, st) ==
  IF r.kind # "ok" THEN Caught(o, r, s, st)
  ELSE LET normalized == normalizeCart(r.cart)
       IN  IF Len(normalized.items) = 0
             THEN [state |-> cartReducer(s, ClearCart),
                   storage |-> persistCartId(Null)]
             ELSE [state |-> cartReducer(s, SetCart(normalized)), storage |-> st]

Then(o, r, s, st) ==
  CASE o.handler = "add" -> handleAddToCartThen(o, r, s, st)
    [] o.handler = "update" -> handleUpdateQuantityThen(o, r, s, st)
    [] OTHER -> handleRemoveItemThen(o, r, s, st)

\* The line ids a caller passes: the lines of the cart in hand, held or not
LineIdsOf(s) == {LineId(IF s.cartId = Null THEN 1 ELSE s.cartId, v) : v \in Variants}

RemoveAt(seq, i) == [k \in 1..(Len(seq) - 1) |-> IF k < i THEN seq[k] ELSE seq[k + 1]]

\* ========================================================= the local cart
\* lib/cartContext.js: the provider that keeps the cart in the browser only.
\* Its handlers are synchronous; they compute the new items from state.items
\* of the render they were created in (closure) and dispatch SET_ITEMS.
localInitialState == [items |-> <<>>, loading |-> FALSE, error |-> NoError]

SetItems(payload) == [type |-> "SET_ITEMS", payload |-> payload]

localCartReducer(s, action) ==
  CASE action.type = "SET_ITEMS" ->
         [s EXCEPT !.items = action.payload, !.loading = FALSE, !.error = NoError]
    [] action.type = "SET_LOADING" ->
         [s EXCEPT !.loading = TRUE, !.error = NoError]
    [] action.type = "SET_ERROR" ->
         [s EXCEPT !.loading = FALSE, !.error = action.payload]
    [] action.type = "CLEAR_CART" -> localInitialState
    [] OTHER -> s

\* The stored string, by what JSON.parse makes of it
StoredNothing == [tag |-> "absent", items |-> <<>>]        \* getItem gives null
StoredItems(items) == [tag |-> "array", items |-> items]   \* JSON.stringify(items)
StoredGarbage == [tag |-> "garbage", items |-> <<>>]       \* JSON.parse throws
StoredOther == [tag |-> "other", items |-> <<>>]           \* JSON, but no array

\* The restore effect: the state it leaves, for what the storage holds
localRestore(st) ==
  IF st.tag = "array" /\ Len(st.items) > 0
    THEN localCartReducer(localInitialState, SetItems(st.items))
    ELSE localInitialState

\* The persist effect for a render with the given items
\* (variant: the items are written also when there are none)
localPersistAlwaysWrites(items) == StoredItems(items)

\* The persist effect for a render with the given items
localPersist(items) ==
  IF Len(items) > 0 THEN StoredItems(items) ELSE StoredNothing

LocalItem(id, v, q) ==
  [id |-> id, variantId |-> v, price |-> Price(v), quantity |-> q]

\* The items each handler dispatches, from the items of its closure
localHandleAddToCart(items, v, quantity, newId) ==
  IF \E k \in 1..Len(items) : items[k].variantId = v
    THEN [k \in 1..Len(items) |->
            IF items[k].variantId = v
              THEN [items[k] EXCEPT !.quantity = @ + quantity]
              ELSE items[k]]
    ELSE Append(items, LocalItem(newId, v, quantity))

localHandleRemoveItem(items, lineId) ==
  SelectSeq(items, LAMBDA i : i.id # lineId)

localHandleUpdateQuantity(items, lineId, quantity) ==
  IF quantity <= 0
    THEN localHandleRemoveItem(items, lineId)
    ELSE [k \in 1..Len(items) |->
            IF items[k].id = lineId
              THEN [items[k] EXCEPT !.quantity = quantity]
              ELSE items[k]]

\* The line ids a caller passes: those generated so far and the next one
LocalLineIds == 1..nextLocalLine

\* ========================================================== the REST store
\* The Express router with its carts in memory.  A cart is
\* [exists, lines, subtotal, total], a line [id, merchandiseId, quantity, price].
\* Number.prototype.toFixed(2) of an amount in hundredths: the decimal string,
\* by its sign, its whole part and its two decimals
toFixed(n) ==
  LET abs == IF n < 0 THEN 0 - n ELSE n
  IN  [negative |-> n < 0, whole |-> abs \div 100, decimals |-> abs % 100]

RECURSIVE reduceTotals(_, _)
reduceTotals(lines, acc) ==
  IF lines = <<>> THEN acc
  ELSE reduceTotals(Tail(lines),
                    acc + parseFloat(Head(lines).price) * Head(lines).quantity)

\* (variant: the prices are summed without the quantities)
computeTotalsOfPrices(lines) ==
  LET sum == reduceTotals([k \in 1..Len(lines) |-> [lines[k] EXCEPT !.quantity = 1]], 0)
  IN  [subtotal |-> toFixed(sum), total |-> toFixed(sum)]

computeTotals(lines) ==
  LET sum == reduceTotals(lines, 0)
  IN  [subtotal |-> toFixed(sum), total |-> toFixed(sum)]

StoredCart(lines) ==
  [exists |-> TRUE, lines |-> lines,
   subtotal |-> computeTotals(lines).subtotal, total |-> computeTotals(lines).total]
NoStoredCart ==
  [exists |-> FALSE, lines |-> <<>>,
   subtotal |-> toFixed(0), total |-> toFixed(0)]

\* Request bodies: no lines property, one that is no array, or an array
BodyMissing == [kind |-> "missing", lines |-> <<>>]
BodyNotArray == [kind |-> "not_array", lines |-> <<>>]
Body(lines) == [kind |-> "array", lines |-> lines]
Invalid(body) == body.kind # "array" \/ Len(body.lines) = 0

SeqsUpTo(S, n) == UNION {[1..k -> S] : k \in 0..n}

\* A line to add as a client sends it
LineInput(m, q) == [merchandiseId |-> m, quantity |-> q, price |-> LinePrice(m)]
PostBodies ==
  {BodyMissing, BodyNotArray}
  \cup {Body(ls) : ls \in SeqsUpTo({LineInput(m, q) : m \in Merchandise,
                                                      q \in RestQuantities}, MaxBody)}

\* An update as a client sends it: the lines of the cart and one unknown id
PutBodies(cart) ==
  {BodyMissing, BodyNotArray}
  \cup {Body(us) : us \in SeqsUpTo([id : {cart.lines[k].id : k \in 1..Len(cart.lines)}
                                          \cup {nextLineId},
                                    quantity : PutQuantities], MaxBody)}

\* Array.prototype.find / findIndex: the first match, or 0 for none
FindMerchandise(lines, m) ==
  IF \E k \in 1..Len(lines) : lines[k].merchandiseId = m
    THEN CHOOSE k \in 1..Len(lines) :
           /\ lines[k].merchandiseId = m
           /\ \A j \in 1..(k - 1) : lines[j].merchandiseId # m
    ELSE 0

FindLine(lines, id) ==
  IF \E k \in 1..Len(lines) : lines[k].id = id
    THEN CHOOSE k \in 1..Len(lines) :
           /\ lines[k].id = id
           /\ \A j \in 1..(k - 1) : lines[j].id # id
    ELSE 0

Splice(lines, idx) ==
  [k \in 1..(Len(lines) - 1) |-> IF k < idx THEN lines[k] ELSE lines[k + 1]]

\* (variant: every line of the request is pushed as a new line)
postLinesAlwaysPushes(lines, inputs, nextId) ==
  [lines |-> lines \o [k \in 1..Len(inputs) |->
                         [id |-> nextId + k - 1,
                          merchandiseId |-> inputs[k].merchandiseId,
                          quantity |-> IF inputs[k].quantity # 0 THEN inputs[k].quantity ELSE 1,
                          price |-> IF inputs[k].price # NoPrice THEN inputs[k].price ELSE "0.00"]],
   nextLineId |-> nextId + Len(inputs)]

\* The loop of POST /:cartId/lines: the lines and the line-id counter it leaves
RECURSIVE postLines(_, _, _)
postLines(lines, inputs, nextId) ==
  IF inputs = <<>> THEN [lines |-> lines, nextLineId |-> nextId]
  ELSE LET line == Head(inputs)
           quantity == IF line.quantity # 0 THEN line.quantity ELSE 1
           price == IF line.price # NoPrice THEN line.price ELSE "0.00"
           existing == FindMerchandise(lines, line.merchandiseId)
       IN  IF existing # 0
             THEN postLines([lines EXCEPT ![existing].quantity = @ + quantity],
                            Tail(inputs), nextId)
             ELSE postLines(Append(lines, [id |-> nextId,
                                           merchandiseId |-> line.merchandiseId,
                                           quantity |-> quantity,
                                           price |-> price]),
                            Tail(inputs), nextId + 1)

\* The loop of PUT /:cartId/lines
RECURSIVE putLines(_, _)
putLines(lines, updates) ==
  IF updates = <<>> THEN lines
  ELSE LET update == Head(updates)
           idx == FindLine(lines, update.id)
       IN  IF idx = 0 THEN putLines(lines, Tail(updates))
           ELSE IF update.quantity <= 0
                  THEN putLines(Splice(lines, idx), Tail(updates))
                  ELSE putLines([lines EXCEPT ![idx].quantity = update.quantity],
                                Tail(updates))

deleteLine(lines, lineId) == SelectSeq(lines, LAMBDA l : l.id # lineId)

\* What a body is to the check of the lines array
BodyKind(body) ==
  IF body.kind # "array" THEN body.kind
  ELSE IF Len(body.lines) = 0 THEN "empty" ELSE "filled"

\* The response to the latest request: which request of the session it
\* answered (n), the route, the cart id and the kind of body of the request,
\* the status, and the id of the cart it carries
NoResponse ==
  [n |-> 0, route |-> "none", asked |-> Null, body |-> "none",
   status |-> 0, cartId |-> Null]
Response(route, asked, body, status, cartId) ==
  [n |-> response.n + 1, route |-> route, asked |-> asked, body |-> body,
   status |-> status, cartId |-> cartId]

\* ===================================================== the cart API routes
\* pages/api/cart/add.js, update.js and remove.js: one handler each, alike
\* but for the gateway function and the name of the list property.
Methods == {"GET", "POST", "PUT", "DELETE"}
Routes == {"add", "update", "remove"}
\* cartId of a body: undefined, "" or a cart id
CartIdKinds == {"missing", "empty", "id"}
\* A list property of a body: undefined, a value that is no array, [] or
\* an array with entries
ListKinds == {"missing", "not_array", "empty", "filled"}

\* req.body: none, or an object with the properties the routes read
NoBody ==
  [present |-> FALSE, cartId |-> "missing", lines |-> "missing", lineIds |-> "missing"]
ReqBody(cartId, lines, lineIds) ==
  [present |-> TRUE, cartId |-> cartId, lines |-> lines, lineIds |-> lineIds]
ReqBodies ==
  {NoBody} \cup {ReqBody(c, l, li) : c \in CartIdKinds, l \in ListKinds, li \in ListKinds}

GatewayOf(route) ==
  CASE route = "add" -> "cartLinesAdd"
    [] route = "update" -> "cartLinesUpdate"
    [] route = "remove" -> "cartLinesRemove"

\* The list the handler of the route destructures from the body
\* (variant: remove.js copied from add.js still reads lines)
listOfAlwaysLines(route, body) == body.lines

listOf(route, body) == IF route = "remove" THEN body.lineIds ELSE body.lines

Answer(status, allow, gateway) ==
  [status |-> status, allow |-> allow, gateway |-> gateway]

\* handler(req, res): the status, the Allow header and the gateway function
\* it has called, for a gateway call that throws or returns
handler(route, method, body, gatewayThrows) ==
  IF method # "POST"
    THEN Answer(405, "POST", "none")
    ELSE IF \/ body.cartId \in {"missing", "empty"}
            \/ listOf(route, body) \in {"missing", "not_array", "empty"}
           THEN Answer(400, "", "none")
           ELSE IF gatewayThrows
                  THEN Answer(500, "", GatewayOf(route))
                  ELSE Answer(200, "", GatewayOf(route))

ApiState(route, method, body, answer) ==
  [route |-> route, method |-> method, body |-> body, answer |-> answer]

ApiIdle == api = ApiState("none", "none", NoBody, Answer(0, "", "none"))

\* =================================================== the product list routes
\* pages/api/products/index.js and the Express route of api/server.js compute
\* the number of products to ask the platform for by the same expression.
\* req.query.limit: absent, a string that starts with no number, or a decimal
\* numeral, given by its value rounded toward zero and whether it has a
\* fractional part
NoLimit == [kind |-> "absent", value |-> 0, fraction |-> FALSE]
NotANumberLimit == [kind |-> "text", value |-> 0, fraction |-> FALSE]
NumeralLimit(n, fraction) == [kind |-> "numeral", value |-> n, fraction |-> fraction]
LimitValues == -3..104
Limits ==
  {NoLimit, NotANumberLimit}
  \cup {NumeralLimit(n, f) : n \in LimitValues, f \in BOOLEAN}

\* JavaScript numbers as far as the expression meets them
NaN == [nan |-> TRUE, n |-> 0]
Num(n) == [nan |-> FALSE, n |-> n]

\* parseInt(string): the integer the string starts with, else NaN
parseInt(limit) ==
  IF limit.kind = "numeral" THEN Num(limit.value) ELSE NaN

\* x || d for a number x: NaN and 0 are falsy
OrDefault(x, d) == IF x.nan \/ x.n = 0 THEN d ELSE x.n

MathMax(a, b) == IF a >= b THEN a ELSE b
MathMin(a, b) == IF a <= b THEN a ELSE b

limitOf(query) ==
  MathMin(MathMax(OrDefault(parseInt(query), 20), 1), 100)

ProductsState(route, method, limit, status, first) ==
  [route |-> route, method |-> method, limit |-> limit, status |-> status,
   first |-> first]

ProductsIdle == products = ProductsState("none", "none", NoLimit, 0, 0)

\* ------------------------------------------------------- the access tokens
\* getAccessToken exists in three modules, each with a cache of its own.
Copies == {"lib/shopify.js", "api/lib/shopifyClient.js", "part_006"}

\* data.expires_in of the token response, in seconds; Null: the response has none
ExpiresIn == {Null, 600, 3600}

\* Time that passes before a call, in milliseconds: 1 min, 4 min, 55 min, 23 h
Elapses == {60000, 240000, 3300000, 82800000}

\* How long after `now` the cached token is used, in milliseconds
cacheFor(copy, expires_in) ==
  IF copy = "lib/shopify.js"
    THEN IF expires_in # Null THEN (expires_in - 300) * 1000 ELSE 23 * 60 * 60 * 1000
    ELSE (IF expires_in # Null THEN expires_in ELSE 86400) * 1000 - 5 * 60 * 1000

\* obtainedAt and expires_in: the `now` and the response of the exchange that
\* filled the cache
NoToken ==
  [cachedToken |-> Null, tokenExpiresAt |-> 0, obtainedAt |-> 0, expires_in |-> Null]

\* if (cachedToken && now < tokenExpiresAt) return cachedToken
cacheHit(cache, now) == cache.cachedToken # Null /\ now < cache.tokenExpiresAt

\* The assignments after a successful exchange
cacheFill(copy, now, access_token, expires_in) ==
  [cachedToken |-> access_token, tokenExpiresAt |-> now + cacheFor(copy, expires_in),
   obtainedAt |-> now, expires_in |-> expires_in]

TokensIdle ==
  /\ tokens = [c \in Copies |-> NoToken]
  /\ clock = 0
  /\ exchanges = {}
  /\ tokenCalls = 0

AuxIdle == ApiIdle /\ ProductsIdle /\ TokensIdle

\* -------------------------------------------------------------------- Init
InitialCarts ==
  {Live(<<RawLine(1, "V1", 1)>>), Live(<<RawLine(1, "V1", 2), RawLine(1, "V2", 1)>>)}

SyncInit ==
  /\ state = initialState
  /\ mounted = FALSE
  /\ pending = <<>>
  /\ invoked = 0
  /\ last = Step("init", NoOp, NoResp)
  /\ nextCart = 2
  /\ \E st \in {Absent, Garbage, JsonNull, JsonScalar, Json(Null), Json(1)} :
       /\ storage = st
       /\ \E c1 \in (IF st = Json(1) THEN {NoCart} \cup InitialCarts ELSE {NoCart}) :
            remote = [c \in CartIds |-> IF c = 1 THEN c1 ELSE NoCart]

\* Each of the three programs, not started
SyncIdle ==
  /\ state = initialState
  /\ mounted = FALSE
  /\ pending = <<>>
  /\ invoked = 0
  /\ last = Step("init", NoOp, NoResp)
  /\ nextCart = 2
  /\ storage = Absent
  /\ remote = [c \in CartIds |-> NoCart]

LocalIdle ==
  /\ local = localInitialState
  /\ closure = <<>>
  /\ localMounted = FALSE
  /\ nextLocalLine = 2
  /\ stored = StoredNothing

RestIdle ==
  /\ carts = [c \in RestCartIds |-> NoStoredCart]
  /\ nextCartId = 1
  /\ nextLineId = 1
  /\ response = NoResponse

\* The local cart before its first render, with what an earlier session of
\* it may have left in the storage
LocalInit ==
  /\ local = localInitialState
  /\ closure = <<>>
  /\ localMounted = FALSE
  /\ nextLocalLine = 2
  /\ stored \in {StoredNothing, StoredGarbage, StoredOther,
                 StoredItems(<<LocalItem(1, "V1", 2)>>)}

Init == SyncInit /\ LocalIdle /\ RestIdle /\ calls = 0 /\ AuxIdle

\* Every program of the model, not started
Init0 == SyncIdle /\ LocalIdle /\ RestIdle /\ calls = 0 /\ AuxIdle

StoreInit == SyncIdle /\ LocalInit /\ RestIdle /\ calls = 0 /\ AuxIdle

\* ----------------------------------------------------------------- actions
\* The mount effect: restore the cart id, not the cart
\* (variant: the effect dispatches SET_LOADING to refetch the restored cart)
MountSetsLoading ==
  /\ ~mounted
  /\ mounted' = TRUE
  /\ LET loaded == loadCartId(storage)
     IN  /\ storage' = loaded.storage
         /\ state' = IF loaded.value # Null
                       THEN cartReducer(
                              cartReducer(state,
                                SetCart([cartId |-> loaded.value,
                                         checkoutUrl |-> Null, items |-> <<>>])),
                              SetLoading)
                       ELSE state
  /\ last' = Step("mount", NoOp, NoResp)
  /\ UNCHANGED <<pending, invoked, remote, nextCart>>
  /\ UNCHANGED <<localVars, restVars, calls, auxVars>>

Mount ==
  /\ ~mounted
  /\ mounted' = TRUE
  /\ LET loaded == loadCartId(storage)
     IN  /\ storage' = loaded.storage
         /\ state' = IF loaded.value # Null
                       THEN cartReducer(state,
                              SetCart([cartId |-> loaded.value,
                                       checkoutUrl |-> Null, items |-> <<>>]))
                       ELSE state
  /\ last' = Step("mount", NoOp, NoResp)
  /\ UNCHANGED <<pending, invoked, remote, nextCart>>
  /\ UNCHANGED <<localVars, restVars, calls, auxVars>>

\* A handler runs up to its fetch (or returns at once: kind "none")
Invoke(o) ==
  /\ mounted
  /\ invoked < MaxOps
  /\ Len(pending) < MaxInFlight
  /\ invoked' = invoked + 1
  /\ pending' = IF o.kind = "none" THEN pending ELSE Append(pending, o)
  /\ state' = IF o.kind = "none" THEN state ELSE cartReducer(state, SetLoading)
  /\ last' = Step("invoke", o, NoResp)
  /\ UNCHANGED <<storage, mounted, remote, nextCart>>
  /\ UNCHANGED <<localVars, restVars, calls, auxVars>>

AddToCart ==
  \E v \in Variants, q \in AddQuantities : Invoke(handleAddToCart(state, v, q))

UpdateQuantity ==
  \E l \in LineIdsOf(state), q \in UpdateQuantities :
     Invoke(handleUpdateQuantity(state, l, q))

RemoveItem ==
  \E l \in LineIdsOf(state) : Invoke(handleRemoveItem(state, l))

\* handleClearCart: local only
ClearCartAction ==
  /\ mounted
  /\ storage' = persistCartId(Null)
  /\ state' = cartReducer(state, ClearCart)
  /\ last' = Step("clear", NoOp, NoResp)
  /\ UNCHANGED <<mounted, pending, invoked, remote, nextCart>>
  /\ UNCHANGED <<localVars, restVars, calls, auxVars>>

\* The platform serves a request (or the request fails on the way)
Serve ==
  \E i \in 1..Len(pending) :
    /\ ~pending[i].served
    /\ \E out \in ServeOutcomes(pending[i], remote, nextCart) :
         /\ pending' = [pending EXCEPT ![i].served = TRUE, ![i].resp = out.resp]
         /\ remote' = out.remote
         /\ nextCart' = out.nextCart
    /\ UNCHANGED <<state, storage, mounted, invoked, last>>
    /\ UNCHANGED <<localVars, restVars, calls, auxVars>>

\* The response arrives and the handler's continuation runs
Resolve ==
  \E i \in 1..Len(pending) :
    /\ pending[i].served
    /\ LET out == Then(pending[i], pending[i].resp, state, storage)
       IN  /\ state' = out.state
           /\ storage' = out.storage
    /\ pending' = RemoveAt(pending, i)
    /\ last' = Step("resolve", pending[i], pending[i].resp)
    /\ UNCHANGED <<mounted, invoked, remote, nextCart>>
    /\ UNCHANGED <<localVars, restVars, calls, auxVars>>

Next ==
  \/ Mount
  \/ AddToCart
  \/ UpdateQuantity
  \/ RemoveItem
  \/ ClearCartAction
  \/ Serve
  \/ Resolve

Spec == Init /\ [][Next]_vars

\* Every fetch settles (a timeout settles it as an error), and the event
\* loop runs the continuation of a settled fetch.
FairSpec == Spec /\ WF_vars(Serve) /\ WF_vars(Resolve)

\* --------------------------------------------------- the local cart's steps
\* The effects of the first render: the restore effect dispatches the stored
\* items, then the persist effect runs for the items of that render, none.
LocalMount ==
  /\ ~localMounted
  /\ localMounted' = TRUE
  /\ local' = localRestore(stored)
  /\ stored' = localPersist(closure)
  /\ UNCHANGED <<closure, nextLocalLine, calls, syncVars, restVars, auxVars>>

\* The render after a dispatch, and its persist effect
LocalRender ==
  /\ localMounted
  /\ closure # local.items
  /\ closure' = local.items
  /\ stored' = localPersist(local.items)
  /\ UNCHANGED <<local, localMounted, nextLocalLine, calls, syncVars, restVars, auxVars>>

LocalCall(items, usedId) ==
  /\ localMounted
  /\ calls < MaxCalls
  /\ calls' = calls + 1
  /\ local' = localCartReducer(local, SetItems(items))
  /\ nextLocalLine' = IF usedId THEN nextLocalLine + 1 ELSE nextLocalLine
  /\ UNCHANGED <<closure, stored, localMounted, syncVars, restVars, auxVars>>

LocalAddToCart ==
  \E v \in Variants, q \in AddQuantities :
     LocalCall(localHandleAddToCart(closure, v, q, nextLocalLine),
               ~ \E k \in 1..Len(closure) : closure[k].variantId = v)

LocalUpdateQuantity ==
  \E l \in LocalLineIds, q \in UpdateQuantities :
     LocalCall(localHandleUpdateQuantity(closure, l, q), FALSE)

LocalRemoveItem ==
  \E l \in LocalLineIds : LocalCall(localHandleRemoveItem(closure, l), FALSE)

LocalClearCart ==
  /\ localMounted
  /\ calls < MaxCalls
  /\ calls' = calls + 1
  /\ local' = localCartReducer(local, ClearCart)
  /\ UNCHANGED <<closure, stored, localMounted, nextLocalLine, syncVars, restVars, auxVars>>

\* --------------------------------------------------- the REST store's routes
Request ==
  /\ calls < MaxCalls
  /\ calls' = calls + 1
  /\ UNCHANGED <<syncVars, localVars, auxVars>>

\* POST /
PostCart ==
  /\ Request
  /\ carts' = [carts EXCEPT ![nextCartId] = StoredCart(<<>>)]
  /\ nextCartId' = nextCartId + 1
  /\ response' = Response("create", Null, "none", 201, nextCartId)
  /\ UNCHANGED nextLineId

\* GET /:cartId
GetCart ==
  \E c \in RestCartIds :
    /\ Request
    /\ response' = IF carts[c].exists
                     THEN Response("get", c, "none", 200, c)
                     ELSE Response("get", c, "none", 404, Null)
    /\ UNCHANGED <<carts, nextCartId, nextLineId>>

\* POST /:cartId/lines, for one cart id and one body
PostLinesOf(c, body) ==
  /\ Request
  /\ IF ~carts[c].exists
       THEN /\ response' = Response("post", c, BodyKind(body), 404, Null)
            /\ UNCHANGED <<carts, nextLineId>>
       ELSE IF Invalid(body)
              THEN /\ response' = Response("post", c, BodyKind(body), 400, Null)
                   /\ UNCHANGED <<carts, nextLineId>>
              ELSE LET out == postLines(carts[c].lines, body.lines, nextLineId)
                   IN  /\ carts' = [carts EXCEPT ![c] = StoredCart(out.lines)]
                       /\ nextLineId' = out.nextLineId
                       /\ response' = Response("post", c, BodyKind(body), 200, c)
  /\ UNCHANGED nextCartId


\* POST /:cartId/lines
\* (variant: the body is checked before the cart is looked up)
PostLinesBodyFirst ==
  \E c \in RestCartIds, body \in PostBodies :
    /\ Request
    /\ IF Invalid(body)
         THEN /\ response' = Response("post", c, BodyKind(body), 400, Null)
              /\ UNCHANGED <<carts, nextLineId>>
         ELSE IF ~carts[c].exists
                THEN /\ response' = Response("post", c, BodyKind(body), 404, Null)
                     /\ UNCHANGED <<carts, nextLineId>>
                ELSE LET out == postLines(carts[c].lines, body.lines, nextLineId)
                     IN  /\ carts' = [carts EXCEPT ![c] = StoredCart(out.lines)]
                         /\ nextLineId' = out.nextLineId
                         /\ response' = Response("post", c, BodyKind(body), 200, c)
    /\ UNCHANGED nextCartId

PostLines == \E c \in RestCartIds, body \in PostBodies : PostLinesOf(c, body)

\* PUT /:cartId/lines
PutLines ==
  \E c \in RestCartIds :
    \E body \in PutBodies(carts[c]) :
      /\ Request
      /\ IF ~carts[c].exists
           THEN /\ response' = Response("put", c, BodyKind(body), 404, Null)
                /\ UNCHANGED carts
           ELSE IF Invalid(body)
                  THEN /\ response' = Response("put", c, BodyKind(body), 400, Null)
                       /\ UNCHANGED carts
                  ELSE /\ carts' = [carts EXCEPT
                                      ![c] = StoredCart(putLines(carts[c].lines, body.lines))]
                       /\ response' = Response("put", c, BodyKind(body), 200, c)
      /\ UNCHANGED <<nextCartId, nextLineId>>

\* DELETE /:cartId/lines/:lineId
DeleteLine ==
  \E c \in RestCartIds, l \in 1..nextLineId :
    /\ Request
    /\ IF ~carts[c].exists
         THEN /\ response' = Response("delete", c, "none", 404, Null)
              /\ UNCHANGED carts
         ELSE /\ carts' = [carts EXCEPT
                             ![c] = StoredCart(deleteLine(carts[c].lines, l))]
              /\ response' = Response("delete", c, "none", 200, c)
    /\ UNCHANGED <<nextCartId, nextLineId>>

StoreNext ==
  \/ LocalMount
  \/ LocalRender
  \/ LocalAddToCart
  \/ LocalUpdateQuantity
  \/ LocalRemoveItem
  \/ LocalClearCart
  \/ PostCart
  \/ GetCart
  \/ PostLines
  \/ PutLines
  \/ DeleteLine

\* The local cart and the REST store, each on its own
StoreSpec == StoreInit /\ [][StoreNext]_vars

\* ------------------------------------------------------ the cart API routes
ApiRequest(route) ==
  \E method \in Methods, body \in ReqBodies, gatewayThrows \in BOOLEAN :
    /\ api' = ApiState(route, method, body, handler(route, method, body, gatewayThrows))
    /\ UNCHANGED <<cartVars, products, tokenVars>>

ApiAdd == ApiRequest("add")
ApiUpdate == ApiRequest("update")
ApiRemove == ApiRequest("remove")

ApiNext ==
  \/ ApiAdd
  \/ ApiUpdate
  \/ ApiRemove

ApiSpec == Init0 /\ [][ApiNext]_vars

\* --------------------------------------------------- the product list routes
\* GET /api/products of the Next.js app; first = 0: getProducts was not called
ProductsHandler ==
  \E method \in Methods, limit \in Limits, getProductsThrows \in BOOLEAN :
    /\ products' =
         IF method # "GET"
           THEN ProductsState("pages", method, limit, 405, 0)
           ELSE ProductsState("pages", method, limit,
                              IF getProductsThrows THEN 500 ELSE 200, limitOf(limit))
    /\ UNCHANGED <<cartVars, api, tokenVars>>

\* router.get('/') of the Express server
ProductsRoute ==
  \E limit \in Limits, requestThrows \in BOOLEAN :
    /\ products' = ProductsState("express", "GET", limit,
                                 IF requestThrows THEN 500 ELSE 200, limitOf(limit))
    /\ UNCHANGED <<cartVars, api, tokenVars>>

ProductsNext ==
  \/ ProductsHandler
  \/ ProductsRoute

ProductsSpec == Init0 /\ [][ProductsNext]_vars

\* --------------------------------------------------------- getAccessToken
\* A call up to its return or its await of fetch
getAccessToken(copy, elapsed) ==
  /\ tokenCalls < MaxCalls
  /\ tokenCalls' = tokenCalls + 1
  /\ clock' = clock + elapsed
  /\ exchanges' =
       IF cacheHit(tokens[copy], clock') THEN exchanges
       ELSE exchanges \cup {[copy |-> copy, now |-> clock', access_token |-> tokenCalls']}
  /\ UNCHANGED <<tokens, cartVars, api, products>>

TokenCall == \E copy \in Copies, elapsed \in Elapses : getAccessToken(copy, elapsed)

\* The token endpoint answers and the call continues after its await
TokenResponse ==
  \E x \in exchanges, ok \in BOOLEAN, expires_in \in ExpiresIn :
    /\ exchanges' = exchanges \ {x}
    /\ tokens' =
         IF ok THEN [tokens EXCEPT ![x.copy] = cacheFill(x.copy, x.now, x.access_token, expires_in)]
         ELSE tokens
    /\ UNCHANGED <<clock, tokenCalls, cartVars, api, products>>

TokenNext ==
  \/ TokenCall
  \/ TokenResponse

TokenSpec == Init0 /\ [][TokenNext]_vars

TypeOK ==
  /\ state.loading \in BOOLEAN
  /\ state.cartId \in {Null} \cup CartIds
  /\ Len(pending) <= invoked
  /\ invoked \in 0..MaxOps
  /\ nextCart \in CartIds \cup {MaxOps + 2}

\* ------------------------------------------------------------- the claims
\* The step resolves the request at position i of pending
Resolves(i) ==
  /\ i \in 1..Len(pending)
  /\ pending[i].served
  /\ last'.type = "resolve"
  /\ pending' = RemoveAt(pending, i)

\* The step is a handler invocation; it issues a request
Invokes(name) == invoked' = invoked + 1 /\ last'.handler = name
Issues == invoked' = invoked + 1 /\ Len(pending') = Len(pending) + 1
Issued == pending'[Len(pending')]

ViewUnchanged ==
  /\ state'.cartId = state.cartId
  /\ state'.checkoutUrl = state.checkoutUrl
  /\ state'.items = state.items
  /\ storage' = storage

\* C1: no step of an operation whose gateway call fails changes the handle,
\* the checkoutUrl, the items or the stored handle: its invocation only
\* sets loading, and its resolution sets error to the failure detail and
\* loading to false.
C1_FailureLeavesCart ==
  [][ /\ Issues => ViewUnchanged
      /\ \A i \in 1..Len(pending) :
           (Resolves(i) /\ pending[i].resp.kind # "ok") =>
              /\ ViewUnchanged
              /\ state'.error = ErrorMessage(pending[i], pending[i].resp)
              /\ state'.error # NoError
              /\ state'.loading = FALSE ]_vars

C1_Witness ==
  /\ last.type = "resolve"
  /\ last.result # "ok"
  /\ state.error # NoError
  /\ state.cartId # Null
  /\ Len(state.items) > 0
  /\ storage = Json(state.cartId)

\* C2: an addItem invoked right after an addItem that created the cart has
\* resolved successfully issues one add-lines call against the handle the
\* create returned, and no second create-cart call.
C2_SingleCreate ==
  [][ (/\ last.type = "resolve" /\ last.handler = "add"
       /\ last.kind = "create" /\ last.result = "ok"
       /\ Invokes("add"))
      => /\ Issues
         /\ Issued.kind = "add"
         /\ Issued.cartId = last.respCartId
         /\ Issued.cartId # Null ]_vars

C2_Witness ==
  /\ last.type = "invoke" /\ last.handler = "add" /\ last.kind = "add"
  /\ last.cartId = 2
  /\ Len(pending) = 1
  /\ invoked = 2

\* C3: when removeItem resolves successfully with a cart of zero lines the
\* handle is cleared from the state and from the storage, and an addItem
\* invoked next issues create-cart.
C3_HandleForgotten ==
  [][ /\ \A i \in 1..Len(pending) :
           (/\ Resolves(i) /\ pending[i].handler = "remove"
            /\ pending[i].resp.kind = "ok"
            /\ Len(pending[i].resp.cart.lines) = 0)
           => /\ state'.cartId = Null
              /\ state'.items = <<>>
              /\ storage' = Absent
      /\ (/\ last.type = "resolve" /\ last.handler = "remove"
          /\ last.result = "ok" /\ last.respLines = 0
          /\ Invokes("add"))
         => (Issues /\ Issued.kind = "create" /\ Issued.cartId = Null) ]_vars

C3_Witness ==
  /\ last.type = "resolve" /\ last.handler = "remove"
  /\ last.result = "ok" /\ last.respLines = 0
  /\ invoked < MaxOps
  /\ pending = <<>>
  /\ state.cartId = Null
  /\ storage = Absent
  /\ remote[1].live /\ remote[1].lines = <<>>

C5_WholesaleReplace ==
  [][ \A i \in 1..Len(pending) :
        (Resolves(i) /\ pending[i].resp.kind = "ok") =>
           LET lines == pending[i].resp.cart.lines
           IN  /\ Len(state'.items) = Len(lines)
               /\ \A k \in 1..Len(lines) :
                    /\ state'.items[k].id = lines[k].id
                    /\ state'.items[k].variantId = lines[k].merchandise.id
                    /\ state'.items[k].quantity = lines[k].quantity
                    /\ state'.items[k].price = lines[k].merchandise.price ]_vars

C5_Witness ==
  /\ last.type = "resolve" /\ last.handler = "remove" /\ last.result = "ok"
  /\ invoked = 2 /\ pending = <<>>
  /\ Len(state.items) = 1
  /\ state.items[1].variantId = "V1" /\ state.items[1].quantity = 2
  /\ remote[1].lines = <<RawLine(1, "V1", 2)>>

\* C6: mutations are serialized: at most one gateway mutation call of the
\* session is in flight at any time.
C6_Serialized == Len(pending) <= 1

\* C7: whenever an operation has set status to Pending, status returns to
\* Idle, however the gateway call resolves.
C7_EventuallyIdle == state.loading ~> ~state.loading

C7_Witness ==
  /\ last.type = "resolve" /\ last.result = "null_cart"
  /\ pending = <<>>
  /\ state.loading = FALSE
  /\ state.error # NoError

\* C8: once a mutation against a handle the platform no longer recognizes
\* has been rejected, the handle is held neither in the state nor in the
\* storage and the cart is empty.
C8_StaleHandleCleared ==
  (/\ last.type = "resolve"
   /\ last.result \in {"http_error", "null_cart"}
   /\ last.cartId # Null
   /\ ~remote[last.cartId].live)
  => /\ state.cartId # last.cartId
     /\ loadCartId(storage).value # last.cartId
     /\ state.items = <<>>

\* C9: create-cart is never in flight twice: a second addItem reuses the
\* handle of the first instead of creating a second cart.
C9_OneCreate ==
  \A i, j \in 1..Len(pending) :
     (pending[i].kind = "create" /\ pending[j].kind = "create") => i = j

\* C10: the response of a failed create-cart writes no handle: it leaves the
\* storage and the local handle as they were, which is without a handle and
\* null when the provider has done nothing else since the addItem was
\* invoked.  The storage comes to hold a handle only when a successful
\* response carrying it is resolved, and it never holds the handle of a
\* create-cart that has not resolved.
StoredHandle == loadCartId(storage).value

C10_PersistAfterCreate ==
  [][ /\ \A i \in 1..Len(pending) :
           (/\ Resolves(i) /\ pending[i].kind = "create"
            /\ pending[i].resp.kind # "ok")
           => /\ storage' = storage
              /\ state'.cartId = state.cartId
              /\ (last.type = "invoke" /\ last.kind = "create")
                    => (StoredHandle' = Null /\ state'.cartId = Null)
      /\ (StoredHandle' # StoredHandle /\ StoredHandle' # Null)
         => \E i \in 1..Len(pending) :
              /\ Resolves(i)
              /\ pending[i].resp.kind = "ok"
              /\ pending[i].resp.cart.id = StoredHandle'
      /\ \A i \in 1..Len(pending') :
           pending'[i].kind = "create" =>
              (StoredHandle' = Null \/ pending'[i].resp.cart.id # StoredHandle')
    ]_vars

C10_Witness ==
  /\ last.type = "resolve" /\ last.kind = "create" /\ last.result # "ok"
  /\ pending = <<>>
  /\ StoredHandle = Null
  /\ state.cartId = Null
  /\ state.error = "Failed to create cart"

\* C11: the items are those of the latest response the platform has given:
\* once every invoked operation has resolved, and the last of them resolved
\* with a cart that the provider still holds, the items are the lines the
\* platform holds for that cart.
C11_LatestResponseWins ==
  (/\ pending = <<>>
   /\ last.type = "resolve"
   /\ last.result = "ok"
   /\ state.cartId # Null)
  => state.items = normalizeCart(RawCart(state.cartId, remote[state.cartId].lines)).items

\* C12: when updateQuantity resolves successfully with a cart of zero lines,
\* whatever the quantity asked for, the handle is cleared from the state and
\* from the storage.
C12_EmptiedByUpdate ==
  [][ \A i \in 1..Len(pending) :
        (/\ Resolves(i) /\ pending[i].handler = "update"
         /\ pending[i].resp.kind = "ok"
         /\ Len(pending[i].resp.cart.lines) = 0)
        => /\ state'.cartId = Null
           /\ state'.items = <<>>
           /\ storage' = Absent ]_vars

\* C13: updateQuantity and removeItem invoked while the state holds no cart
\* id issue no request and leave loading, cart id, items, checkoutUrl, error
\* and the storage as they were.
C13_NoHandleNoOp ==
  [][ ((Invokes("update") \/ Invokes("remove")) /\ state.cartId = Null)
      => /\ pending' = pending
         /\ state' = state
         /\ storage' = storage ]_vars

C13_Witness ==
  /\ last.type = "invoke"
  /\ last.handler \in {"update", "remove"}
  /\ last.kind = "none"
  /\ state.cartId = Null
  /\ state.error # NoError
  /\ ~state.loading
  /\ pending = <<>>

\* C14: the mount effect that finds the cart id h in the storage leaves the
\* state at cartId = h, items = <<>>, checkoutUrl = null, loading = false,
\* issues no request, and leaves h in the storage.
C14_LazyRestore ==
  [][ (~mounted /\ mounted' /\ StoredHandle # Null)
      => /\ state' = [cartId |-> StoredHandle, checkoutUrl |-> Null,
                      items |-> <<>>, loading |-> FALSE, error |-> NoError]
         /\ pending' = <<>>
         /\ storage' = storage
         /\ StoredHandle' = StoredHandle ]_vars

C14_Witness ==
  /\ last.type = "mount"
  /\ state.cartId = 1
  /\ state.items = <<>>
  /\ ~state.loading
  /\ storage = Json(1)
  /\ pending = <<>>
  /\ remote[1].live /\ Len(remote[1].lines) > 0

\* C15: with no cart id in the storage the view has no items, itemCount 0,
\* subtotal 0 and no cart id when the provider mounts, and every step other
\* than the successful resolution of an addToCart keeps it so (and keeps the
\* storage without a cart id and nothing but create-cart calls in flight).
EmptyView ==
  /\ state.cartId = Null
  /\ state.items = <<>>
  /\ itemCount(state) = 0
  /\ subtotal(state) = 0
  /\ StoredHandle = Null
  /\ \A i \in 1..Len(pending) : pending[i].kind = "create"

C15_EmptyUntilAdd ==
  /\ []((~mounted /\ StoredHandle = Null) => EmptyView)
  /\ [][ (/\ EmptyView
          /\ ~ \E i \in 1..Len(pending) :
                 /\ Resolves(i)
                 /\ pending[i].handler = "add"
                 /\ pending[i].resp.kind = "ok")
         => EmptyView' ]_vars

C15_Witness ==
  /\ EmptyView
  /\ mounted
  /\ invoked >= 2
  /\ pending = <<>>
  /\ last.type = "resolve" /\ last.handler = "add" /\ last.result # "ok"
  /\ storage = JsonScalar

\* C16: in every state itemCount is the sum of the quantities of the items
\* and subtotal the sum of their unit price times quantity.  When the
\* addToCart of V1 (price 10.00) that created the cart has resolved, they are
\* 1 and 10.00; when a second addToCart of V1, the second call of the
\* session, merged by the platform into the line, has resolved, they are 2
\* and 20.00.  (Amounts in hundredths.)
C16_DerivedValues ==
  LET items == state.items
      n == Len(items)
      q(k) == IF k <= n THEN items[k].quantity ELSE 0
      p(k) == IF k <= n
                THEN (IF items[k].variantId = "V1" THEN 1000 ELSE 2550)
                ELSE 0
      settled == /\ pending = <<>>
                 /\ last.type = "resolve" /\ last.handler = "add"
                 /\ last.result = "ok"
                 /\ n = 1 /\ items[1].variantId = "V1"
  IN  /\ n <= 2
      /\ itemCount(state) = q(1) + q(2)
      /\ subtotal(state) = p(1) * q(1) + p(2) * q(2)
      /\ (settled /\ last.kind = "create")
            => (itemCount(state) = 1 /\ subtotal(state) = 1000)
      /\ (settled /\ last.kind = "add" /\ last.cartId >= 2 /\ invoked = 2)
            => (itemCount(state) = 2 /\ subtotal(state) = 2000)

C16_Witness ==
  /\ pending = <<>>
  /\ last.type = "resolve" /\ last.handler = "add" /\ last.kind = "add"
  /\ last.result = "ok" /\ last.cartId = 2
  /\ Len(state.items) = 1
  /\ state.items[1].variantId = "V1" /\ state.items[1].quantity = 2
  /\ itemCount(state) = 2
  /\ subtotal(state) = 2000

\* C17: a handler's promise is never rejected, and when the handler has
\* resolved it holds {ok: true, view} after a successful response and
\* {ok: false, error} after a failed one.
C17_ResultShape ==
  last.type = "resolve"
  => /\ last.returned # "rejected"
     /\ last.result = "ok" => last.returned = "{ok: true, view}"
     /\ last.result # "ok" => last.returned = "{ok: false, error}"

\* C18: when the storage holds a string that does not parse, or that parses
\* to something other than an object with a cartId, the mount effect gets no
\* cart id from it: the state stays the initial, empty one, no request is
\* issued, and the storage yields no cart id afterwards.
Corrupt(st) ==
  \/ st.tag \in {"garbage", "null", "scalar"}
  \/ (st.tag = "object" /\ st.cartId = Null)

C18_CorruptStoreIsAbsent ==
  [][ (~mounted /\ mounted' /\ Corrupt(storage))
      => /\ state' = initialState
         /\ state'.cartId = Null /\ state'.items = <<>>
         /\ state'.error = NoError
         /\ pending' = <<>>
         /\ storage' \in {storage, Absent}
         /\ ~(storage'.tag = "object" /\ storage'.cartId # Null) ]_vars

C18_Witness ==
  /\ mounted
  /\ last.type = "mount"
  /\ storage = JsonScalar
  /\ state = initialState
  /\ pending = <<>>

\* C19: an addToCart with a quantity below 1 is turned down before any
\* request: no create-cart or add-lines call is ever issued with a quantity
\* below 1, and a step that issues none leaves the cart id, the
\* checkoutUrl, the items and the storage as they were.
C19_QuantityValidated ==
  [][ Invokes("add")
      => IF Issues THEN Issued.quantity >= 1
                   ELSE (pending' = pending /\ ViewUnchanged) ]_vars

\* C20: every line of the local cart and of every cart of the REST store has
\* a quantity of at least 1.
C20_PositiveQuantities ==
  /\ \A k \in 1..Len(local.items) : local.items[k].quantity >= 1
  /\ \A c \in RestCartIds :
       \A k \in 1..Len(carts[c].lines) : carts[c].lines[k].quantity >= 1

\* C21: each cart API handler answers a request whose method is not POST
\* with 405 and Allow: POST, and a POST whose body has no cartId or whose
\* list (lines, for remove lineIds) is missing, no array or empty with 400;
\* in both cases it has not called the gateway function.
Malformed(route, body) ==
  \/ ~body.present
  \/ body.cartId \in {"missing", "empty"}
  \/ (route \in {"add", "update"} /\ body.lines \in {"missing", "not_array", "empty"})
  \/ (route = "remove" /\ body.lineIds \in {"missing", "not_array", "empty"})

C21_MalformedRejected ==
  api.route \in Routes
  => /\ api.method # "POST"
          => (api.answer.status = 405 /\ api.answer.allow = "POST"
              /\ api.answer.gateway = "none")
     /\ (api.method = "POST" /\ Malformed(api.route, api.body))
          => (api.answer.status = 400 /\ api.answer.gateway = "none")

C21_Witness ==
  /\ api.route = "remove"
  /\ api.method = "POST"
  /\ api.body.cartId = "id"
  /\ api.body.lines = "filled"
  /\ api.body.lineIds = "missing"
  /\ api.answer.status = 400
  /\ api.answer.gateway = "none"

\* C22: whatever the limit parameter, the number of products asked for is an
\* integer in 1..100: the value given when it lies in 1..100, 100 when it is
\* larger, 1 when it is smaller than 1, and 20 when the parameter is absent
\* or no number.
C22_LimitClamped ==
  products.status \in {200, 500}
  => LET limit == products.limit
         first == products.first
     IN  /\ first \in 1..100
         /\ limit.kind \in {"absent", "text"} => first = 20
         /\ (limit.kind = "numeral" /\ limit.value > 100) => first = 100
         /\ (limit.kind = "numeral" /\ limit.value < 1) => first = 1
         /\ (limit.kind = "numeral" /\ limit.value \in 1..100 /\ ~limit.fraction)
               => first = limit.value

\* C23: the REST store answers a request that names a cart id it does not
\* hold with 404, and a POST or PUT of lines for a cart it holds whose
\* lines is missing, no array or empty with 400; a request answered 404 or
\* 400 changes no cart and uses up no cart id and no line id.
C23_RejectedUnchanged ==
  [][ response'.n = response.n + 1
      => LET r == response'
             known == r.asked \in RestCartIds /\ carts[r.asked].exists
             untouched == /\ carts' = carts
                          /\ nextCartId' = nextCartId
                          /\ nextLineId' = nextLineId
         IN  /\ (r.route \in {"get", "post", "put", "delete"} /\ ~known)
                  => (r.status = 404 /\ untouched)
             /\ (r.route \in {"post", "put"} /\ known
                 /\ r.body \in {"missing", "not_array", "empty"})
                  => (r.status = 400 /\ untouched)
             /\ r.status \in {400, 404} => untouched ]_vars

C23_Witness ==
  /\ response.route = "put"
  /\ response.status = 404
  /\ response.body = "empty"
  /\ response.asked \in RestCartIds
  /\ ~carts[response.asked].exists
  /\ nextCartId > 1
  /\ \E c \in RestCartIds : carts[c].exists /\ Len(carts[c].lines) > 0

\* C24: a call of getAccessToken made while a token obtained at t with lifetime
\* L seconds (expires_in, or 24 h when the response had none) is cached, and
\* before t + L - 5 min, starts no exchange; a call at or after that moment
\* starts one. This holds for every copy of the function.
C24_RefreshFiveMinutesEarly ==
  [][ \A copy \in Copies, elapsed \in Elapses :
        (getAccessToken(copy, elapsed) /\ tokens[copy].cachedToken # Null)
        => LET cache == tokens[copy]
               L == IF cache.expires_in # Null THEN cache.expires_in ELSE 24 * 60 * 60
               refreshAt == cache.obtainedAt + L * 1000 - 5 * 60 * 1000
           IN  (exchanges' = exchanges) <=> (clock' < refreshAt) ]_vars

\* The two copies that compute the default as 24 h minus 5 min keep C24
C24_OtherCopies ==
  [][ \A copy \in Copies \ {"lib/shopify.js"}, elapsed \in Elapses :
        (getAccessToken(copy, elapsed) /\ tokens[copy].cachedToken # Null)
        => LET cache == tokens[copy]
               L == IF cache.expires_in # Null THEN cache.expires_in ELSE 24 * 60 * 60
               refreshAt == cache.obtainedAt + L * 1000 - 5 * 60 * 1000
           IN  (exchanges' = exchanges) <=> (clock' < refreshAt) ]_vars

\* The step is the local cart's addToCart of quantity q of variant v
AddsLocally(v, q) ==
  LocalCall(localHandleAddToCart(closure, v, q, nextLocalLine),
            ~ \E k \in 1..Len(closure) : closure[k].variantId = v)

\* The lines of variant v in items, and their quantity
LinesOf(items, v) == SelectSeq(items, LAMBDA i : i.variantId = v)
QuantityOf(items, v) ==
  IF Len(LinesOf(items, v)) = 0 THEN 0 ELSE LinesOf(items, v)[1].quantity

\* C25: in the local cart every addToCart of quantity q of variant v, also
\* one issued before the render that follows an earlier call, leaves at most
\* one line per variant, raises the quantity held for v by q and leaves the
\* quantities of the other variants as they were.
C25_AddAccumulates ==
  [][ \A v \in Variants, q \in AddQuantities :
        AddsLocally(v, q)
        => /\ \A w \in Variants : Len(LinesOf(local'.items, w)) <= 1
           /\ QuantityOf(local'.items, v) = QuantityOf(local.items, v) + q
           /\ \A w \in Variants \ {v} :
                QuantityOf(local'.items, w) = QuantityOf(local.items, w) ]_vars

\* C25 for the calls made when the component has rendered the current items
C25_AfterRender ==
  [][ \A v \in Variants, q \in AddQuantities :
        (AddsLocally(v, q) /\ closure = local.items)
        => /\ \A w \in Variants : Len(LinesOf(local'.items, w)) <= 1
           /\ QuantityOf(local'.items, v) = QuantityOf(local.items, v) + q
           /\ \A w \in Variants \ {v} :
                QuantityOf(local'.items, w) = QuantityOf(local.items, w) ]_vars

\* The effects of the local cart have run for the current items
Settled == localMounted /\ closure = local.items

\* C26: in the local cart, once the effects have run for the current items,
\* the storage key is absent exactly when items is empty and otherwise holds
\* exactly the items, so that a mount with that storage restores those items.
C26_StorageFollowsItems ==
  Settled
  => /\ (stored.tag = "absent") <=> (Len(local.items) = 0)
     /\ Len(local.items) > 0 => stored = StoredItems(local.items)
     /\ localRestore(stored).items = local.items

C26_Witness ==
  /\ Settled
  /\ calls >= 2
  /\ Len(local.items) = 2
  /\ stored = StoredItems(local.items)

\* C27: after the mount, whenever no operation is in flight, the handle in
\* localStorage is the handle in the provider's state (both absent, or the
\* same id).
C27_StoreMatchesState ==
  (mounted /\ pending = <<>>) => StoredHandle = state.cartId

\* C28: the loading flag is true exactly while a gateway call issued by
\* addItem, updateQuantity or removeItem is unresolved.
C28_LoadingWhileInFlight ==
  mounted => (state.loading <=> Len(pending) > 0)

\* C28 as long as calls do not overlap and clearCart is not called while a
\* call is in flight
C28_Serialized ==
  [][ (mounted /\ Len(pending) <= 1 /\ (state.loading <=> Len(pending) > 0)
       /\ ~(last'.type = "clear" /\ Len(pending) > 0)
       /\ Len(pending') <= 1 /\ mounted')
      => (state'.loading <=> Len(pending') > 0) ]_vars

\* price x quantity of the first k lines, in hundredths
RECURSIVE LineSum(_, _)
LineSum(lines, k) ==
  IF k = 0 THEN 0
  ELSE LineSum(lines, k - 1) + parseFloat(lines[k].price) * lines[k].quantity

\* The amount n hundredths as a decimal with two places
Amount(n) ==
  [negative |-> n < 0,
   whole |-> (IF n < 0 THEN 0 - n ELSE n) \div 100,
   decimals |-> (IF n < 0 THEN 0 - n ELSE n) % 100]

\* C29: in the REST store, after every request, the subtotal and the total of
\* each stored cart are the sum of price x quantity over its lines, and 0.00
\* for a cart without lines.
C29_TotalsAreLineSum ==
  \A c \in RestCartIds :
    carts[c].exists
    => LET sum == LineSum(carts[c].lines, Len(carts[c].lines))
       IN  /\ carts[c].subtotal = Amount(sum)
           /\ carts[c].total = Amount(sum)
           /\ carts[c].lines = <<>> => carts[c].total = Amount(0)

C29_Witness ==
  \E c \in RestCartIds :
    /\ carts[c].exists
    /\ Len(carts[c].lines) = 2
    /\ carts[c].subtotal = Amount(2000)
    /\ response.route = "put"
    /\ response.status = 200

\* The lines of merchandise m in a cart's lines
LinesFor(lines, m) == SelectSeq(lines, LAMBDA l : l.merchandiseId = m)

\* What the first k lines of a request add to the quantity of m
RECURSIVE Added(_, _, _)
Added(inputs, m, k) ==
  IF k = 0 THEN 0
  ELSE Added(inputs, m, k - 1)
       + (IF inputs[k].merchandiseId # m THEN 0
          ELSE IF inputs[k].quantity # 0 THEN inputs[k].quantity ELSE 1)

\* No cart of the REST store holds two lines with the same merchandiseId
NoDuplicateMerchandise ==
  \A c \in RestCartIds, m \in Merchandise : Len(LinesFor(carts[c].lines, m)) <= 1

\* C30: no cart of the REST store ever holds two lines with the same
\* merchandiseId; a POST of lines for a merchandiseId the cart already holds,
\* also one that names it twice, keeps that line's id and price and adds the
\* posted quantities to its quantity (raising it when none is negative), and
\* creates a line only for a merchandiseId the cart did not hold.
C30_LinesMerge ==
  [][ /\ NoDuplicateMerchandise => NoDuplicateMerchandise'
      /\ \A c \in RestCartIds, body \in PostBodies :
           (/\ response'.route = "post" /\ response'.status = 200
            /\ response'.asked = c
            /\ PostLinesOf(c, body))
           => \A m \in Merchandise :
                LET old == LinesFor(carts[c].lines, m)
                    new == LinesFor(carts'[c].lines, m)
                    added == Added(body.lines, m, Len(body.lines))
                    named == \E k \in 1..Len(body.lines) : body.lines[k].merchandiseId = m
                IN  /\ Len(new) = (IF Len(old) = 1 \/ named THEN 1 ELSE 0)
                    /\ Len(old) = 1
                       => /\ new[1].id = old[1].id
                          /\ new[1].price = old[1].price
                          /\ new[1].quantity = old[1].quantity + added
                          /\ (named /\ \A k \in 1..Len(body.lines) : body.lines[k].quantity >= 0)
                             => new[1].quantity > old[1].quantity
                    /\ (Len(old) = 0 /\ named)
                       => /\ new[1].quantity = added
                          /\ new[1].id >= nextLineId ]_vars

\* A cart that held M1 has answered a request that named M1 twice
C30_Witness ==
  \E c \in RestCartIds :
    /\ carts[c].exists
    /\ response.route = "post" /\ response.status = 200 /\ response.asked = c
    /\ response.n = 3
    /\ Len(carts[c].lines) = 1
    /\ carts[c].lines[1].merchandiseId = "M1"
    /\ carts[c].lines[1].quantity = 6
====
